---- MODULE Spec2Model ----
(***************************************************************************)
(* wgpu-util: DynamicBuffer and BufferPool on top of a wgpu device/queue.  *)
(*                                                                         *)
(* The device is a map from live buffer handles to buffers.  A run         *)
(* constructs one DynamicBuffer or one BufferPool and then calls its       *)
(* methods, or calls create_buffer_init on the device itself.  Other users *)
(* of the device may take the memory it has left.  A panic ends the run.   *)
(***************************************************************************)
EXTENDS Integers, Sequences, FiniteSets, TLC

\* Longest contents passed to any call.
MaxLen == 4
\* Largest descriptor.size and contents length handed to a constructor.
MaxSize == 3
\* Longest contents uploaded to a pool.
MaxPoolLen == 2
\* Most slots a pool grows to.
MaxSlots == 2
\* Largest explicit descriptor.size handed to create_buffer_init itself.
MaxInitSize == 9

\* wgpu::COPY_BUFFER_ALIGNMENT
COPY_BUFFER_ALIGNMENT == 4

Byte == {1, 2}
\* Byte slices: every length up to n, filled with one byte value.
Slices(n) == {[i \in 1..k |-> b] : k \in 0..n, b \in Byte}
Contents == Slices(MaxLen)
\* Pool uploads: every length up to MaxPoolLen, one byte value.
PoolContents == {[i \in 1..k |-> 1] : k \in 0..MaxPoolLen}
\* Label (an Option: {} is None) and usage a structure is constructed with.
Descriptors == {[label |-> {}, usage |-> "COPY_DST"],
                [label |-> {"buf"}, usage |-> "VERTEX"]}

Max(a, b) == IF a >= b THEN a ELSE b

\* x & !mask for a mask of the form 2^k - 1
AndNotMask(x, mask) == x - (x % (mask + 1))

(***************************************************************************)
(* The collaborator: wgpu::Device and wgpu::Queue                          *)
(***************************************************************************)
NoDevice == [h \in {} |-> 0]

\* Handle 0 is no buffer of the program: it stands for the device memory
\* other users of the device hold.  While it is live the device has no
\* memory left and create_buffer fails.
Foreign == 0
exhausted(dev) == Foreign \in DOMAIN dev
exhaust(dev) ==
    [g \in DOMAIN dev \cup {Foreign} |->
        IF g = Foreign
        THEN [size |-> 0, usage |-> "NONE", label |-> {}, mapped |-> FALSE,
              mem |-> <<>>]
        ELSE dev[g]]

\* A handle no live buffer has.
FreshHandle(dev) ==
    CHOOSE h \in 1..(Cardinality(DOMAIN dev) + 1) :
        /\ h \notin DOMAIN dev
        /\ \A g \in 1..(h - 1) : g \in DOMAIN dev

\* The device with buffer h added, zero-initialised.
with_buffer(dev, h, descriptor) ==
    [device |-> [g \in DOMAIN dev \cup {h} |->
                    IF g = h
                    THEN [size   |-> descriptor.size,
                          usage  |-> descriptor.usage,
                          label  |-> descriptor.label,
                          mapped |-> descriptor.mapped_at_creation,
                          mem    |-> [i \in 1..descriptor.size |-> 0]]
                    ELSE dev[g]],
     buffer |-> h,
     outcome |-> "ok"]

\* device.create_buffer(&wgpu::BufferDescriptor); out of memory is an
\* uncaptured device error, which panics.
device_create_buffer(dev, descriptor) ==
    IF exhausted(dev)
    THEN [device |-> dev, buffer |-> 0, outcome |-> "oom"]
    ELSE with_buffer(dev, FreshHandle(dev), descriptor)

\* Dropping a wgpu::Buffer releases it.
drop_buffer(dev, h) == [g \in DOMAIN dev \ {h} |-> dev[g]]

\* queue.write_buffer(&buffer, offset, data); a write past the end of the
\* buffer is rejected by validation and changes nothing.
queue_write_buffer(dev, h, offset, data) ==
    IF offset + Len(data) <= dev[h].size
    THEN [dev EXCEPT ![h].mem =
            [i \in 1..dev[h].size |->
                IF i > offset /\ i <= offset + Len(data)
                THEN data[i - offset] ELSE @[i]]]
    ELSE dev

WriteRecord(h, offset, data) == [buffer |-> h, offset |-> offset, data |-> data]

(***************************************************************************)
(* DeviceExt::create_buffer_init                                           *)
(* descriptor.size is an Option: {} is None, {n} is Some(n).               *)
(* outcome "ok": the unmapped buffer is returned.                          *)
(* outcome "assert": the size assertion failed, nothing was allocated.     *)
(* outcome "oom": device.create_buffer panicked, nothing was allocated.    *)
(* outcome "copy": copy_from_slice panicked on slices of different         *)
(*   length; the buffer was allocated and is released by the unwinding.    *)
(***************************************************************************)
\* the assertion with > in place of >=
size_asserted_strict(descriptor) ==
    \A s \in descriptor.size : s > Len(descriptor.contents)

size_asserted(descriptor) ==
    \A s \in descriptor.size : s >= Len(descriptor.contents)

unpadded_size_of(descriptor) ==
    IF descriptor.size = {} THEN Len(descriptor.contents)
    ELSE CHOOSE s \in descriptor.size : TRUE

\* the padded size without the clamp to one alignment unit
padded_size_of_unclamped(unpadded_size) ==
    AndNotMask(unpadded_size + (COPY_BUFFER_ALIGNMENT - 1),
               COPY_BUFFER_ALIGNMENT - 1)

padded_size_of(unpadded_size) ==
    Max(AndNotMask(unpadded_size + (COPY_BUFFER_ALIGNMENT - 1),
                   COPY_BUFFER_ALIGNMENT - 1),
        COPY_BUFFER_ALIGNMENT)

\* The copy into the mapped range, the zero fill and the unmap.
fill_mapped(dev, created, descriptor, unpadded_size, padded_size) ==
    IF created.outcome # "ok"
    THEN [outcome |-> created.outcome, device |-> dev, buffer |-> 0,
          allocs |-> <<>>]
    ELSE IF unpadded_size # Len(descriptor.contents)
    THEN [outcome |-> "copy", device |-> dev, buffer |-> 0,
          allocs |-> <<[buffer |-> created.buffer, size |-> padded_size]>>]
    ELSE [outcome |-> "ok",
          device |-> [created.device EXCEPT
                        ![created.buffer].mem =
                            [i \in 1..padded_size |->
                                IF i <= unpadded_size
                                THEN descriptor.contents[i] ELSE 0],
                        ![created.buffer].mapped = FALSE],
          buffer |-> created.buffer,
          allocs |-> <<[buffer |-> created.buffer, size |-> padded_size]>>]

create_mapped(dev, descriptor, unpadded_size, padded_size) ==
    fill_mapped(dev,
        device_create_buffer(dev,
            [label |-> descriptor.label, size |-> padded_size,
             usage |-> descriptor.usage, mapped_at_creation |-> TRUE]),
        descriptor, unpadded_size, padded_size)

create_buffer_init(dev, descriptor) ==
    IF ~size_asserted(descriptor)
    THEN [outcome |-> "assert", device |-> dev, buffer |-> 0, allocs |-> <<>>]
    ELSE create_mapped(dev, descriptor, unpadded_size_of(descriptor),
                       padded_size_of(unpadded_size_of(descriptor)))

(***************************************************************************)
(* DynamicBuffer                                                           *)
(***************************************************************************)
RESERVE == TRUE

\* a reserve of twice the last size
reserve_function_doubles(last_size) == 2 * last_size

reserve_function(last_size) == last_size * last_size

\* new recording the size create_buffer_init would have allocated
dynamic_of_padded(created, descriptor) ==
    [self   |-> [raw |-> created.buffer, label |-> descriptor.label,
                 size |-> padded_size_of(descriptor.size),
                 usage |-> descriptor.usage],
     device |-> created.device]

dynamic_of(created, descriptor) ==
    [self   |-> [raw |-> created.buffer, label |-> descriptor.label,
                 size |-> descriptor.size, usage |-> descriptor.usage],
     device |-> created.device]

DynamicBuffer_new(dev, descriptor) ==
    dynamic_of(device_create_buffer(dev, descriptor), descriptor)

dynamic_of_init(init, descriptor) ==
    [outcome |-> init.outcome,
     self    |-> [raw |-> init.buffer, label |-> descriptor.label,
                  size |-> Len(descriptor.contents),
                  usage |-> descriptor.usage],
     device  |-> init.device]

DynamicBuffer_new_init(dev, descriptor) ==
    dynamic_of_init(create_buffer_init(dev, descriptor), descriptor)

\* try_upload without the assignment to self.size
try_upload_keeps_size(self, dev, contents) ==
    IF Len(contents) < self.size
    THEN [self   |-> self,
          device |-> queue_write_buffer(dev, self.raw, 0, contents),
          writes |-> <<WriteRecord(self.raw, 0, contents)>>,
          ret    |-> [tag |-> "Ok", val |-> 0]]
    ELSE [self   |-> self,
          device |-> dev,
          writes |-> <<>>,
          ret    |-> [tag |-> "Err", val |-> Len(contents) - self.size]]

\* try_upload returning the contents length as the error value
try_upload_err_is_length(self, dev, contents) ==
    IF Len(contents) < self.size
    THEN [self   |-> [self EXCEPT !.size = Len(contents)],
          device |-> queue_write_buffer(dev, self.raw, 0, contents),
          writes |-> <<WriteRecord(self.raw, 0, contents)>>,
          ret    |-> [tag |-> "Ok", val |-> 0]]
    ELSE [self   |-> self,
          device |-> dev,
          writes |-> <<>>,
          ret    |-> [tag |-> "Err", val |-> Len(contents)]]

\* try_upload writing when the contents are longer than the size
try_upload_inverted(self, dev, contents) ==
    IF Len(contents) > self.size
    THEN [self   |-> [self EXCEPT !.size = Len(contents)],
          device |-> queue_write_buffer(dev, self.raw, 0, contents),
          writes |-> <<WriteRecord(self.raw, 0, contents)>>,
          ret    |-> [tag |-> "Ok", val |-> 0]]
    ELSE [self   |-> self,
          device |-> dev,
          writes |-> <<>>,
          ret    |-> [tag |-> "Err", val |-> Len(contents) - self.size]]

\* ret is Ok(()) or Err(deficit)
try_upload(self, dev, contents) ==
    IF Len(contents) < self.size
    THEN [self   |-> [self EXCEPT !.size = Len(contents)],
          device |-> queue_write_buffer(dev, self.raw, 0, contents),
          writes |-> <<WriteRecord(self.raw, 0, contents)>>,
          ret    |-> [tag |-> "Ok", val |-> 0]]
    ELSE [self   |-> self,
          device |-> dev,
          writes |-> <<>>,
          ret    |-> [tag |-> "Err", val |-> Len(contents) - self.size]]

\* upload_by_init recording the size of the buffer it created
drop_temporary_keeps_size(self, init) ==
    [outcome |-> init.outcome,
     self    |-> IF init.outcome = "ok"
                 THEN [self EXCEPT !.size = init.allocs[1].size]
                 ELSE self,
     device  |-> IF init.outcome = "ok"
                 THEN drop_buffer(init.device, init.buffer)
                 ELSE init.device,
     allocs  |-> init.allocs,
     freed   |-> IF init.allocs = <<>> THEN {} ELSE {init.allocs[1].buffer}]

\* The buffer create_buffer_init returns is a temporary of the expression
\* statement: it is dropped at once, and self is not assigned.
drop_temporary(self, init) ==
    [outcome |-> init.outcome,
     self    |-> self,
     device  |-> IF init.outcome = "ok"
                 THEN drop_buffer(init.device, init.buffer)
                 ELSE init.device,
     allocs  |-> init.allocs,
     freed   |-> IF init.allocs = <<>> THEN {} ELSE {init.allocs[1].buffer}]

upload_by_init(self, dev, contents) ==
    drop_temporary(self,
        create_buffer_init(dev,
            [label |-> self.label, contents |-> contents,
             usage |-> self.usage,
             size |-> IF RESERVE THEN {reserve_function(self.size)}
                      ELSE {}]))

\* upload once the slow path has run
uploaded_by_init(tried, slow) ==
    [outcome |-> slow.outcome, self |-> slow.self, device |-> slow.device,
     writes |-> tried.writes, allocs |-> slow.allocs, freed |-> slow.freed]

\* upload once try_upload has run
upload_after(tried, contents) ==
    IF tried.ret.tag = "Err"
    THEN uploaded_by_init(tried,
             upload_by_init(tried.self, tried.device, contents))
    ELSE [outcome |-> "ok", self |-> tried.self, device |-> tried.device,
          writes |-> tried.writes, allocs |-> <<>>, freed |-> {}]

upload(self, dev, contents) ==
    upload_after(try_upload(self, dev, contents), contents)

raw_of(self) == self.raw

(***************************************************************************)
(* SizedBuffer and resize_write_buffer                                     *)
(***************************************************************************)
SizedBuffer_new(size, buffer) == [size |-> size, buffer |-> buffer]

\* The else branch of resize_write_buffer once create_buffer_init has run.
\* buffer is taken by value: the old SizedBuffer goes out of scope when the
\* function returns, after the new buffer was created.
resized(buffer, contents_size, init) ==
    IF init.outcome = "ok"
    THEN [outcome |-> "ok",
          buffer |-> SizedBuffer_new(contents_size, init.buffer),
          device |-> drop_buffer(init.device, buffer.buffer),
          writes |-> <<>>, allocs |-> init.allocs,
          freed |-> {buffer.buffer}]
    ELSE [outcome |-> init.outcome, buffer |-> buffer,
          device |-> init.device, writes |-> <<>>,
          allocs |-> init.allocs, freed |-> {}]

\* resize_write_buffer shrinking the recorded size to the contents written
resize_write_buffer_shrinks(dev, buffer, descriptor) ==
    IF Len(descriptor.contents) <= buffer.size
    THEN [outcome |-> "ok",
          buffer |-> SizedBuffer_new(Len(descriptor.contents), buffer.buffer),
          device |-> queue_write_buffer(dev, buffer.buffer, 0,
                                        descriptor.contents),
          writes |-> <<WriteRecord(buffer.buffer, 0, descriptor.contents)>>,
          allocs |-> <<>>, freed |-> {}]
    ELSE resized(buffer, Len(descriptor.contents),
             create_buffer_init(dev,
                 [label |-> descriptor.label,
                  contents |-> descriptor.contents,
                  size |-> {}, usage |-> descriptor.usage]))

\* resize_write_buffer comparing with < : contents of exactly the recorded
\* size are reallocated
resize_write_buffer_strict(dev, buffer, descriptor) ==
    IF Len(descriptor.contents) < buffer.size
    THEN [outcome |-> "ok", buffer |-> buffer,
          device |-> queue_write_buffer(dev, buffer.buffer, 0,
                                        descriptor.contents),
          writes |-> <<WriteRecord(buffer.buffer, 0, descriptor.contents)>>,
          allocs |-> <<>>, freed |-> {}]
    ELSE resized(buffer, Len(descriptor.contents),
             create_buffer_init(dev,
                 [label |-> descriptor.label,
                  contents |-> descriptor.contents,
                  size |-> {}, usage |-> descriptor.usage]))

resize_write_buffer(dev, buffer, descriptor) ==
    IF Len(descriptor.contents) <= buffer.size
    THEN [outcome |-> "ok", buffer |-> buffer,
          device |-> queue_write_buffer(dev, buffer.buffer, 0,
                                        descriptor.contents),
          writes |-> <<WriteRecord(buffer.buffer, 0, descriptor.contents)>>,
          allocs |-> <<>>, freed |-> {}]
    ELSE resized(buffer, Len(descriptor.contents),
             create_buffer_init(dev,
                 [label |-> descriptor.label,
                  contents |-> descriptor.contents,
                  size |-> {}, usage |-> descriptor.usage]))

(***************************************************************************)
(* BufferPool                                                              *)
(***************************************************************************)
BufferPool_new(descriptor) ==
    [buffers |-> <<>>, occupied |-> 0,
     label |-> descriptor.label, usage |-> descriptor.usage]

sized_of_init(contents, init) ==
    [outcome |-> init.outcome,
     buffer  |-> SizedBuffer_new(Len(contents), init.buffer),
     device  |-> init.device,
     allocs  |-> init.allocs]

BufferPool_create_buffer(self, dev, contents) ==
    sized_of_init(contents,
        create_buffer_init(dev,
            [label |-> self.label, contents |-> contents,
             usage |-> self.usage, size |-> {}]))

\* replace_with_or_abort once its closure has run: the slot takes the
\* closure's value; a panic in the closure aborts the process.  ret is the
\* value upload returns.
replaced(self, slot, r, ret) ==
    IF r.outcome = "ok"
    THEN [outcome |-> "ok",
          self |-> [self EXCEPT !.buffers[slot] = r.buffer,
                                !.occupied = self.occupied + 1],
          device |-> r.device, writes |-> r.writes,
          allocs |-> r.allocs, freed |-> r.freed, ret |-> ret]
    ELSE [outcome |-> "abort", self |-> self, device |-> r.device,
          writes |-> r.writes, allocs |-> r.allocs,
          freed |-> r.freed, ret |-> 0]

\* self.buffers.push(..) once create_buffer has run
pushed(self, c, ret) ==
    IF c.outcome = "ok"
    THEN [outcome |-> "ok",
          self |-> [self EXCEPT !.buffers = Append(self.buffers, c.buffer),
                                !.occupied = self.occupied + 1],
          device |-> c.device, writes |-> <<>>,
          allocs |-> c.allocs, freed |-> {}, ret |-> ret]
    ELSE [outcome |-> c.outcome, self |-> self, device |-> c.device,
          writes |-> <<>>, allocs |-> c.allocs, freed |-> {}, ret |-> 0]

\* upload returning the slot's 0-based index
BufferPool_upload_zero_based(self, dev, contents) ==
    IF self.occupied < Len(self.buffers)
    THEN replaced(self, self.occupied + 1,
             resize_write_buffer(dev, self.buffers[self.occupied + 1],
                 [label |-> self.label, contents |-> contents,
                  usage |-> self.usage]),
             self.occupied)
    ELSE pushed(self, BufferPool_create_buffer(self, dev, contents),
                self.occupied)

\* Slot i of the source is buffers[i + 1] here.
BufferPool_upload(self, dev, contents) ==
    IF self.occupied < Len(self.buffers)
    THEN replaced(self, self.occupied + 1,
             resize_write_buffer(dev, self.buffers[self.occupied + 1],
                 [label |-> self.label, contents |-> contents,
                  usage |-> self.usage]),
             self.occupied + 1)
    ELSE pushed(self, BufferPool_create_buffer(self, dev, contents),
                self.occupied + 1)

\* clear that also empties the vector
BufferPool_clear_truncates(self) ==
    [self EXCEPT !.occupied = 0, !.buffers = <<>>]

\* clear that empties the vector and leaves the cursor
BufferPool_clear_keeps_cursor(self) == [self EXCEPT !.buffers = <<>>]

BufferPool_clear(self) == [self EXCEPT !.occupied = 0]

\* get that looks only at the vector, not at the cursor
BufferPool_get_ignores_cursor(self, i) ==
    IF i < Len(self.buffers) THEN {self.buffers[i + 1].buffer} ELSE {}

\* Option<&wgpu::Buffer>: {} is None, {h} is Some(h).
BufferPool_get(self, i) ==
    IF i < self.occupied THEN {self.buffers[i + 1].buffer} ELSE {}

(***************************************************************************)
(* State                                                                   *)
(***************************************************************************)
VARIABLES
    obj,        \* what the run works on: "dynamic", "pool" or "device"
    raw,        \* DynamicBuffer.raw; in a device run the buffer the last
                \* create_buffer_init returned; 0 when there is none
    size,       \* DynamicBuffer.size
    buffers,    \* BufferPool.buffers
    occupied,   \* BufferPool.occupied
    label,      \* the structure's label
    usage,      \* the structure's usage
    device,     \* live device buffers, by handle
    panicked,   \* "none", or how the run ended
    last,       \* the last call: its arguments, result and device traffic
    uploads,    \* BufferPool::upload calls since construction or the last clear
    fastLens    \* lengths try_upload has written to the DynamicBuffer

vars == <<obj, raw, size, buffers, occupied, label, usage, device, panicked,
          last, uploads, fastLens>>

DynSelf == [raw |-> raw, label |-> label, size |-> size, usage |-> usage]
PoolSelf == [buffers |-> buffers, occupied |-> occupied,
             label |-> label, usage |-> usage]

Unit == [tag |-> "Unit", val |-> 0]
Panic == [tag |-> "Panic", val |-> 0]
\* The DynamicBuffer fields before the call.
Pre == [raw |-> raw, size |-> size]

Call(op, contents, index, ret, writes, allocs, freed) ==
    [op |-> op, contents |-> contents, index |-> index, ret |-> ret,
     writes |-> writes, allocs |-> allocs, freed |-> freed, pre |-> Pre]

Constructed(op, contents, allocs) ==
    [op |-> op, contents |-> contents, index |-> 0, ret |-> Unit,
     writes |-> <<>>, allocs |-> allocs, freed |-> {},
     pre |-> [raw |-> 0, size |-> 0]]

SizeOptions == {{}} \cup {{s} : s \in 0..MaxSize}

\* The state holds DynamicBuffer n.self on device n.device.
IsDynamic(n, op, contents) ==
    /\ obj = "dynamic"
    /\ raw = n.self.raw /\ size = n.self.size
    /\ label = n.self.label /\ usage = n.self.usage
    /\ device = n.device
    /\ last = Constructed(op, contents,
                          <<[buffer |-> n.self.raw,
                             size |-> n.device[n.self.raw].size]>>)
    /\ buffers = <<>> /\ occupied = 0

InitDynamicNew ==
    \E s \in 0..MaxSize, d \in Descriptors :
        IsDynamic(DynamicBuffer_new(NoDevice,
                      [label |-> d.label, size |-> s, usage |-> d.usage,
                       mapped_at_creation |-> FALSE]),
                  "new", <<>>)

\* new_init returned n without panicking.
IsDynamicInit(n, contents) ==
    n.outcome = "ok" /\ IsDynamic(n, "new_init", contents)

InitDynamicNewInit ==
    \E c \in Slices(MaxSize), sz \in SizeOptions, d \in Descriptors :
        IsDynamicInit(DynamicBuffer_new_init(NoDevice,
                          [label |-> d.label, contents |-> c, size |-> sz,
                           usage |-> d.usage]),
                      c)

\* The state holds BufferPool n and no device buffer.
IsPool(n) ==
    /\ obj = "pool"
    /\ buffers = n.buffers /\ occupied = n.occupied
    /\ label = n.label /\ usage = n.usage
    /\ device = NoDevice
    /\ last = Constructed("pool_new", <<>>, <<>>)
    /\ raw = 0 /\ size = 0

InitPool == \E d \in Descriptors : IsPool(BufferPool_new(d))

\* The run has the device and nothing else.
InitDevice ==
    /\ obj = "device"
    /\ device = NoDevice
    /\ last = Constructed("device", <<>>, <<>>)
    /\ raw = 0 /\ size = 0
    /\ buffers = <<>> /\ occupied = 0
    /\ label = {} /\ usage = "NONE"

Init ==
    /\ panicked = "none"
    /\ uploads = 0
    /\ fastLens = {}
    /\ \/ InitDynamicNew
       \/ InitDynamicNewInit
       \/ InitPool
       \/ InitDevice

(***************************************************************************)
(* DynamicBuffer calls                                                     *)
(***************************************************************************)
\* The call op(contents) ran with result r; ret is what it returned.
DynamicCall(op, contents, r, ret) ==
    /\ raw' = r.self.raw
    /\ size' = r.self.size
    /\ device' = r.device
    /\ panicked' = IF r.outcome = "ok" THEN "none" ELSE r.outcome
    /\ last' = Call(op, contents, 0,
                    IF r.outcome = "ok" THEN ret ELSE Panic,
                    r.writes, r.allocs, r.freed)
    /\ fastLens' = IF r.writes = <<>> THEN fastLens
                   ELSE fastLens \cup {Len(contents)}
    /\ UNCHANGED <<obj, buffers, occupied, label, usage, uploads>>

Upload(contents) ==
    /\ obj = "dynamic" /\ panicked = "none"
    /\ DynamicCall("upload", contents, upload(DynSelf, device, contents),
                   Unit)

\* try_upload does not panic and allocates nothing.
Tried(r) ==
    [outcome |-> "ok", self |-> r.self, device |-> r.device,
     writes |-> r.writes, allocs |-> <<>>, freed |-> {}, ret |-> r.ret]

TriedCall(contents, r) == DynamicCall("try_upload", contents, r, r.ret)

TryUpload(contents) ==
    /\ obj = "dynamic" /\ panicked = "none"
    /\ TriedCall(contents, Tried(try_upload(DynSelf, device, contents)))

\* upload_by_init writes nothing to the queue.
Inited(r) ==
    [outcome |-> r.outcome, self |-> r.self, device |-> r.device,
     writes |-> <<>>, allocs |-> r.allocs, freed |-> r.freed]

UploadByInit(contents) ==
    /\ obj = "dynamic" /\ panicked = "none"
    /\ DynamicCall("upload_by_init", contents,
                   Inited(upload_by_init(DynSelf, device, contents)), Unit)

Raw ==
    /\ obj = "dynamic" /\ panicked = "none"
    /\ last' = Call("raw", <<>>, 0, [tag |-> "Some", val |-> raw_of(DynSelf)],
                    <<>>, <<>>, {})
    /\ UNCHANGED <<raw, size, device, panicked, fastLens>>
    /\ UNCHANGED <<obj, buffers, occupied, label, usage, uploads>>

(***************************************************************************)
(* BufferPool calls                                                        *)
(***************************************************************************)
\* The pool is s after the call.
PoolIs(s) ==
    /\ buffers' = s.buffers
    /\ occupied' = s.occupied
    /\ label' = s.label
    /\ usage' = s.usage

PoolUploaded(contents, r) ==
    /\ PoolIs(r.self)
    /\ device' = r.device
    /\ panicked' = IF r.outcome = "ok" THEN "none" ELSE r.outcome
    /\ last' = Call("pool_upload", contents, 0,
                    IF r.outcome = "ok" THEN [tag |-> "Index", val |-> r.ret]
                    ELSE Panic,
                    r.writes, r.allocs, r.freed)
    /\ uploads' = IF r.outcome = "ok" THEN uploads + 1 ELSE uploads
    /\ UNCHANGED <<obj, raw, size, fastLens>>

PoolUpload(contents) ==
    /\ obj = "pool" /\ panicked = "none"
    /\ occupied < Len(buffers) \/ Len(buffers) < MaxSlots
    /\ PoolUploaded(contents, BufferPool_upload(PoolSelf, device, contents))

PoolClear ==
    /\ obj = "pool" /\ panicked = "none"
    /\ PoolIs(BufferPool_clear(PoolSelf))
    /\ last' = Call("pool_clear", <<>>, 0, Unit, <<>>, <<>>, {})
    /\ uploads' = 0
    /\ UNCHANGED <<device, panicked>>
    /\ UNCHANGED <<obj, raw, size, fastLens>>

\* The Option g as a return value.
OptionRet(g) ==
    IF g = {} THEN [tag |-> "None", val |-> 0]
    ELSE [tag |-> "Some", val |-> CHOOSE h \in g : TRUE]

PoolGet(i) ==
    /\ obj = "pool" /\ panicked = "none"
    /\ last' = Call("pool_get", <<>>, i, OptionRet(BufferPool_get(PoolSelf, i)),
                    <<>>, <<>>, {})
    /\ UNCHANGED <<buffers, occupied, label, usage, device, panicked, uploads>>
    /\ UNCHANGED <<obj, raw, size, fastLens>>

(***************************************************************************)
(* Calls on the device itself                                              *)
(***************************************************************************)
InitSizes == {{}} \cup {{s} : s \in 0..MaxInitSize}

InitDescriptors ==
    {[label |-> d.label, contents |-> c, usage |-> d.usage, size |-> sz] :
        d \in Descriptors, c \in Contents, sz \in InitSizes}

\* create_buffer_init(descriptor) ran with result r.  The record of the
\* call has the descriptor's size as well.
InitCalled(descriptor, r) ==
    /\ raw' = r.buffer
    /\ device' = r.device
    /\ panicked' = IF r.outcome = "ok" THEN "none" ELSE r.outcome
    /\ last' = [op |-> "create_buffer_init",
                contents |-> descriptor.contents, index |-> 0,
                ret |-> IF r.outcome = "ok"
                        THEN [tag |-> "Some", val |-> r.buffer] ELSE Panic,
                writes |-> <<>>, allocs |-> r.allocs, freed |-> {},
                pre |-> Pre, size |-> descriptor.size]
    /\ UNCHANGED <<obj, size, buffers, occupied, label, usage, uploads,
                   fastLens>>

\* The caller drops the buffer of its last call before it calls again.
CreateBufferInit(descriptor) ==
    /\ obj = "device" /\ panicked = "none"
    /\ InitCalled(descriptor,
           create_buffer_init(IF raw = 0 THEN device
                              ELSE drop_buffer(device, raw),
                              descriptor))

\* Other users of the device take the memory it has left.
Exhaust ==
    /\ panicked = "none" /\ ~exhausted(device)
    /\ device' = exhaust(device)
    /\ last' = Call("exhaust", <<>>, 0, Unit, <<>>, <<>>, {})
    /\ UNCHANGED <<obj, raw, size, buffers, occupied, label, usage, panicked,
                   uploads, fastLens>>

Next ==
    \/ \E c \in Contents : Upload(c)
    \/ \E c \in Contents : TryUpload(c)
    \/ \E c \in Contents : UploadByInit(c)
    \/ Raw
    \/ \E c \in PoolContents : PoolUpload(c)
    \/ PoolClear
    \/ \E i \in 0..MaxSlots : PoolGet(i)
    \/ \E d \in InitDescriptors : CreateBufferInit(d)
    \/ Exhaust

Spec == Init /\ [][Next]_vars

(***************************************************************************)
(* DynamicBuffer properties                                                *)
(***************************************************************************)
Returned == last.ret.tag # "Panic"

\* The bytes [0, Len(data)) of buffer h equal data.
Holds(h, data) ==
    /\ h \in DOMAIN device
    /\ device[h].size >= Len(data)
    /\ \A i \in 1..Len(data) : device[h].mem[i] = data[i]

\* C1: after upload(device, queue, data) returns, the buffer raw() returns
\* has a capacity of at least len(data) bytes and holds data.
C1_UploadLeavesSufficientHandle ==
    (last.op = "upload" /\ Returned) =>
        /\ raw_of(DynSelf) \in DOMAIN device
        /\ device[raw_of(DynSelf)].size >= Len(last.contents)
        /\ Holds(raw_of(DynSelf), last.contents)

\* C2: an upload of data with len(data) >= current_size that returns has
\* performed exactly one allocation, owns the newly allocated handle in
\* place of the old one, and has the size field equal to len(data).
C2_SlowPathReplacesHandle ==
    (last.op = "upload" /\ Returned /\ Len(last.contents) >= last.pre.size) =>
        /\ Len(last.allocs) = 1
        /\ raw = last.allocs[1].buffer
        /\ raw # last.pre.raw
        /\ raw \in DOMAIN device
        /\ size = Len(last.contents)

\* C3: upload and try_upload of data with len(data) < current_size allocate
\* nothing, issue exactly one queued write of data at offset 0 to the owned
\* handle, keep the owned handle, set the size field to len(data), and
\* try_upload returns Ok.
C3_FastPath ==
    (last.op \in {"upload", "try_upload"}
        /\ Len(last.contents) < last.pre.size) =>
        /\ last.allocs = <<>>
        /\ last.freed = {}
        /\ last.writes = <<WriteRecord(last.pre.raw, 0, last.contents)>>
        /\ raw = last.pre.raw
        /\ raw \in DOMAIN device
        /\ size = Len(last.contents)
        /\ last.op = "try_upload" => last.ret.tag = "Ok"
        /\ last.op = "upload" => last.ret.tag = "Unit"

C3_FastPathTaken ==
    /\ last.op = "try_upload"
    /\ Len(last.contents) > 0
    /\ Len(last.contents) < last.pre.size
    /\ last.ret.tag = "Ok"

\* C4 as stated: a failed try_upload returns the positive deficit
\* len(data) - current_size, issues no write and leaves handle and size.
C4_ErrIsPositiveDeficit ==
    (last.op = "try_upload" /\ last.ret.tag = "Err") =>
        /\ last.ret.val = Len(last.contents) - last.pre.size
        /\ last.ret.val > 0
        /\ last.writes = <<>>
        /\ raw = last.pre.raw
        /\ size = last.pre.size

\* C4 as amended: a failed try_upload returns the deficit
\* len(data) - current_size, which is >= 0 and is 0 exactly when
\* len(data) = current_size; it issues no write and leaves handle and size.
C4_ErrIsDeficit ==
    (last.op = "try_upload" /\ last.ret.tag = "Err") =>
        /\ last.ret.val = Len(last.contents) - last.pre.size
        /\ last.ret.val >= 0
        /\ (last.ret.val = 0) <=> (Len(last.contents) = last.pre.size)
        /\ last.writes = <<>>
        /\ last.allocs = <<>>
        /\ raw = last.pre.raw
        /\ size = last.pre.size

C4_ErrOfEqualLength ==
    /\ last.op = "try_upload"
    /\ last.ret = [tag |-> "Err", val |-> 0]
    /\ last.pre.size > 0

\* C5: upload of data with len(data) >= current_size completes: the
\* shortfall is handled by reallocation and no fatal precondition is hit.
C5_ShortfallNeverFatal ==
    (last.op = "upload" /\ Len(last.contents) >= last.pre.size) =>
        /\ Returned
        /\ panicked = "none"

(***************************************************************************)
(* BufferPool properties                                                   *)
(***************************************************************************)
\* The step is a BufferPool::upload call that returned.
UploadStep == last'.op = "pool_upload" /\ last'.ret.tag = "Index"

\* Every slot but slot k (1-based) is as it was, and so is its buffer.
OtherSlotsUntouched(k) ==
    \A j \in 1..Len(buffers) :
        j # k =>
            /\ j <= Len(buffers')
            /\ buffers'[j] = buffers[j]
            /\ buffers[j].buffer \in DOMAIN device'
            /\ device'[buffers[j].buffer] = device[buffers[j].buffer]

C7_GetRespectsCursor ==
    [][last'.op = "pool_get" =>
        /\ last'.index < occupied =>
              last'.ret = [tag |-> "Some",
                           val |-> buffers[last'.index + 1].buffer]
        /\ last'.index >= occupied => last'.ret.tag = "None"
        /\ UNCHANGED <<buffers, occupied, label, usage, device>>
    ]_vars

C7_VacantSlotHidden ==
    /\ last.op = "pool_get"
    /\ last.index >= occupied
    /\ last.index < Len(buffers)
    /\ last.ret.tag = "None"

\* C8: clear sets occupied to 0 and changes nothing else: the slots, their
\* handles and sizes, the label and the usage stay, and no buffer is
\* allocated or released.
C8_ClearOnlyResetsCursor ==
    [][last'.op = "pool_clear" =>
        /\ occupied' = 0
        /\ UNCHANGED <<buffers, label, usage, device>>
        /\ last'.allocs = <<>>
        /\ last'.freed = {}
    ]_vars

C8_ClearedWithSlots ==
    /\ last.op = "pool_clear"
    /\ last.pre = [raw |-> 0, size |-> 0]
    /\ occupied = 0
    /\ Len(buffers) = 2

\* C9: occupied <= length(slots) in every state of a pool, so the slot
\* index used by upload's reuse branch and by get is in bounds.
C9_OccupiedWithinSlots ==
    obj = "pool" =>
        /\ occupied <= Len(buffers)
        /\ occupied < Len(buffers) => (occupied + 1) \in DOMAIN buffers
        /\ (last.op = "pool_get" /\ last.ret.tag = "Some") =>
              (last.index + 1) \in DOMAIN buffers

C9_PartlyOccupied ==
    /\ obj = "pool"
    /\ occupied = 1
    /\ Len(buffers) = 2
    /\ last.op = "pool_get"
    /\ last.ret.tag = "Some"

\* C10: the k-th upload of a cycle (k <= length(slots)) targets the slot
\* created k-th and allocates only if its data is longer than that slot's
\* recorded size; an upload that fits leaves length(slots) and every handle
\* unchanged, and a slot's recorded size never drops below what was last
\* uploaded to it, so a cycle of uploads no longer than the previous
\* cycle's allocates nothing.
C10_ReuseAcrossCycles ==
    [][/\ obj = "pool" => occupied' = uploads'
       /\ \A j \in 1..Len(buffers) :
              j <= Len(buffers') /\ buffers'[j].size >= buffers[j].size
       /\ (UploadStep /\ occupied < Len(buffers)) =>
            LET c == last'.contents
                k == uploads + 1
            IN  /\ last'.ret.val = k
                /\ OtherSlotsUntouched(k)
                /\ buffers'[k].size >= Len(c)
                /\ last'.allocs # <<>> <=> Len(c) > buffers[k].size
                /\ Len(c) <= buffers[k].size =>
                      /\ buffers' = buffers
                      /\ last'.writes =
                           <<WriteRecord(buffers[k].buffer, 0, c)>>
                      /\ DOMAIN device' = DOMAIN device
    ]_vars

C10_FirstSlotReused ==
    /\ last.op = "pool_upload"
    /\ last.ret = [tag |-> "Index", val |-> 1]
    /\ Len(last.contents) = 1
    /\ last.allocs = <<>>
    /\ last.writes = <<WriteRecord(buffers[1].buffer, 0, last.contents)>>
    /\ uploads = 1
    /\ Len(buffers) = 2

(***************************************************************************)
(* create_buffer_init properties                                           *)
(***************************************************************************)
\* The smallest multiple of a that is >= n, and a when n = 0.
AlignedSize(n, a) == Max(a, ((n + a - 1) \div a) * a)

\* The unpadded size of the last create_buffer_init call on the device.
RequestedSize ==
    IF last.size = {} THEN Len(last.contents)
    ELSE CHOOSE s \in last.size : TRUE

\* The buffer h is unmapped, has size bytes, starts with data and is zero
\* after it.
HoldsPadded(h, data, n) ==
    /\ h \in DOMAIN device
    /\ ~device[h].mapped
    /\ device[h].size = n
    /\ n >= Len(data)
    /\ \A i \in 1..n :
          device[h].mem[i] = IF i <= Len(data) THEN data[i] ELSE 0

\* s is the size create_buffer_init allocates for the unpadded size n.
IsAlignedSize(s, n) ==
    /\ s = AlignedSize(n, COPY_BUFFER_ALIGNMENT)
    /\ s % COPY_BUFFER_ALIGNMENT = 0
    /\ s >= n
    /\ s >= COPY_BUFFER_ALIGNMENT
    /\ s = COPY_BUFFER_ALIGNMENT \/ s - COPY_BUFFER_ALIGNMENT < n
    /\ n = 0 => s = COPY_BUFFER_ALIGNMENT

\* C11: the buffer create_buffer_init allocates for the unpadded size n
\* (the explicit size, or len(contents) without one) has size
\* max(A, ceil(n / A) * A): the smallest multiple of the alignment A that
\* is >= n, and A when n = 0.
C11_PaddedSize ==
    /\ (last.op = "create_buffer_init" /\ last.allocs # <<>>) =>
          /\ Len(last.allocs) = 1
          /\ IsAlignedSize(last.allocs[1].size, RequestedSize)
    /\ (last.op \in {"new_init", "pool_upload"} /\ last.allocs # <<>>) =>
          /\ Len(last.allocs) = 1
          /\ IsAlignedSize(last.allocs[1].size, Len(last.contents))

C11_PaddedPastContents ==
    /\ last.op = "create_buffer_init"
    /\ last.size = {5}
    /\ Len(last.allocs) = 1
    /\ last.allocs[1].size = 8

\* C12: create_buffer_init with an explicit size that is absent or
\* >= len(contents), also one strictly greater than len(contents), returns
\* an unmapped buffer of padded_size bytes whose first len(contents) bytes
\* are contents and whose other bytes are zero (device memory permitting).
C12_InitReturnsPaddedContents ==
    (/\ last.op = "create_buffer_init"
     /\ panicked # "oom"
     /\ \A s \in last.size : s >= Len(last.contents)) =>
        /\ Returned
        /\ panicked = "none"
        /\ HoldsPadded(last.ret.val, last.contents,
                       AlignedSize(RequestedSize, COPY_BUFFER_ALIGNMENT))

\* C13: create_buffer_init with an explicit size < len(contents) fails
\* fatally before any device buffer is allocated; with a size that is
\* absent or >= len(contents) the size assertion does not fail.
C13_SizeAssertion ==
    last.op = "create_buffer_init" =>
        /\ (\E s \in last.size : s < Len(last.contents)) =>
              /\ panicked = "assert"
              /\ ~Returned
              /\ last.allocs = <<>>
              /\ raw = 0
        /\ (\A s \in last.size : s >= Len(last.contents)) =>
              panicked # "assert"

C13_AssertionFailed ==
    /\ last.op = "create_buffer_init"
    /\ last.size = {2}
    /\ Len(last.contents) = 3
    /\ panicked = "assert"
    /\ last.allocs = <<>>

(***************************************************************************)
(* resize_write_buffer and SizedBuffer properties                          *)
(***************************************************************************)
\* C14: resize_write_buffer on a slot with len(contents) <= buffer.size
\* issues one queued write of contents at offset 0 to the slot's handle,
\* allocates nothing and returns the same handle with the same size (not
\* shrunk); otherwise it issues no write, allocates exactly one buffer
\* through create_buffer_init without an explicit size, and returns a
\* SizedBuffer of that new handle.
C14_WriteOrReallocate ==
    [][(UploadStep /\ occupied < Len(buffers)) =>
        LET c == last'.contents
            old == buffers[occupied + 1]
            new == buffers'[occupied + 1]
        IN  IF Len(c) <= old.size
            THEN /\ last'.writes = <<WriteRecord(old.buffer, 0, c)>>
                 /\ last'.allocs = <<>>
                 /\ last'.freed = {}
                 /\ new.buffer = old.buffer
                 /\ new.size = old.size
                 /\ DOMAIN device' = DOMAIN device
                 /\ device'[old.buffer].size = device[old.buffer].size
                 /\ \A i \in 1..Len(c) : device'[old.buffer].mem[i] = c[i]
            ELSE /\ last'.writes = <<>>
                 /\ Len(last'.allocs) = 1
                 /\ last'.allocs[1].size =
                       AlignedSize(Len(c), COPY_BUFFER_ALIGNMENT)
                 /\ new.buffer = last'.allocs[1].buffer
                 /\ new.buffer # old.buffer
                 /\ new.buffer \in DOMAIN device'
                 /\ ~device'[new.buffer].mapped
                 /\ device'[new.buffer].size = last'.allocs[1].size
                 /\ \A i \in 1..device'[new.buffer].size :
                       device'[new.buffer].mem[i] =
                           IF i <= Len(c) THEN c[i] ELSE 0
    ]_vars

C14_ShorterContentsWritten ==
    /\ last.op = "pool_upload"
    /\ last.ret = [tag |-> "Index", val |-> 1]
    /\ Len(last.contents) = 1
    /\ Len(last.writes) = 1
    /\ buffers[1].size = 2

\* C15: in every pool state the size recorded in a slot's SizedBuffer is
\* the size allocated for its handle (the padded size), not the length of
\* the contents written.
C15_RecordedSizeIsAllocated ==
    (obj = "pool" /\ panicked = "none") =>
        \A j \in 1..Len(buffers) :
            /\ buffers[j].buffer \in DOMAIN device
            /\ buffers[j].size = device[buffers[j].buffer].size

\* C16 as stated: in every state of a DynamicBuffer the size field is the
\* capacity of the handle it owns.
C16_SizeIsCapacity ==
    obj = "dynamic" =>
        /\ raw \in DOMAIN device
        /\ size = device[raw].size

\* C16 as amended: in every state of a DynamicBuffer the size field is at
\* most the capacity of the handle it owns; it is below it after new_init
\* of contents that were padded and after a fast-path write.
C16_SizeWithinCapacity ==
    obj = "dynamic" =>
        /\ raw \in DOMAIN device
        /\ size <= device[raw].size
        /\ (last.op = "try_upload" /\ last.ret.tag = "Ok") =>
              size < device[raw].size
        /\ (last.op = "new_init"
              /\ Len(last.contents) % COPY_BUFFER_ALIGNMENT # 0) =>
              size < device[raw].size

C16_SizeBelowCapacity ==
    /\ obj = "dynamic"
    /\ last.op = "try_upload"
    /\ last.ret.tag = "Ok"
    /\ size = 1
    /\ device[raw].size = 3

(***************************************************************************)
(* Reserve, failure and size properties                                    *)
(***************************************************************************)
\* The last call ran upload_by_init.
SlowPathRan ==
    \/ last.op = "upload_by_init"
    \/ last.op = "upload" /\ Len(last.contents) >= last.pre.size

\* C17: the slow path asks create_buffer_init for the explicit size
\* growth(size) with growth(n) = n * n, so growth(0) = 0, growth(1) = 1 and
\* growth(n) > n for n >= 2.
C17_ReserveIsSquare ==
    obj = "dynamic" =>
        /\ reserve_function(size) = size * size
        /\ size \in {0, 1} => reserve_function(size) = size
        /\ size >= 2 => reserve_function(size) > size
        /\ (SlowPathRan /\ panicked # "oom") =>
              /\ last.allocs = <<>> <=>
                     last.pre.size * last.pre.size < Len(last.contents)
              /\ last.allocs # <<>> =>
                     last.allocs[1].size =
                         AlignedSize(last.pre.size * last.pre.size,
                                     COPY_BUFFER_ALIGNMENT)
              /\ Returned <=>
                     last.pre.size * last.pre.size = Len(last.contents)

C17_ReserveOfThree ==
    /\ last.op = "upload_by_init"
    /\ last.pre.size = 3
    /\ Len(last.allocs) = 1
    /\ last.allocs[1].size = 12

\* C18: when building the replacement fails in the reuse branch of
\* BufferPool::upload, the pool is still there with the old, valid
\* SizedBuffer in the slot and occupied unchanged.
C18_FailedSwapKeepsSlot ==
    (/\ last.op = "pool_upload"
     /\ ~Returned
     /\ occupied < Len(buffers)) =>
        /\ panicked # "abort"
        /\ occupied = uploads
        /\ buffers[occupied + 1].buffer \in DOMAIN device
        /\ buffers[occupied + 1].size
              <= device[buffers[occupied + 1].buffer].size

\* C19: every queued write is no longer than the size allocated for the
\* buffer it targets, and a recorded size (DynamicBuffer.size,
\* SizedBuffer.size) is never above the size allocated for its handle.
C19_WritesFit ==
    /\ \A i \in 1..Len(last.writes) :
          /\ last.writes[i].buffer \in DOMAIN device
          /\ last.writes[i].offset + Len(last.writes[i].data)
                <= device[last.writes[i].buffer].size
          /\ Holds(last.writes[i].buffer, last.writes[i].data)
    /\ obj = "dynamic" => (raw \in DOMAIN device /\ size <= device[raw].size)
    /\ obj = "pool" =>
          \A j \in 1..Len(buffers) :
              /\ buffers[j].buffer \in DOMAIN device
              /\ buffers[j].size <= device[buffers[j].buffer].size

C19_WriteBelowCapacity ==
    /\ last.op = "try_upload"
    /\ Len(last.writes) = 1
    /\ Len(last.writes[1].data) = 2
    /\ device[raw].size = 3

====
